---- MODULE Spec2Model ----
(***************************************************************************)
(* The redaction pipeline of app/frontend/(tabs)/Ocr.tsx: the Ocr screen   *)
(* (host), the OCR worker page it embeds in a WebView, the message bridge  *)
(* between them, and the per-word entity enrichment (services/ner.js).     *)
(*                                                                         *)
(* Every action is one JavaScript task: a handler runs to its first await, *)
(* and the continuation of an await is a task of its own.  A continuation  *)
(* that runs in a microtask right behind its handler (the .then callback   *)
(* of an async function that returned without awaiting) belongs to the     *)
(* handler's action, since nothing can run in between.                     *)
(*                                                                         *)
(* Entity scores are kept as integers, in hundredths (0.85 is 85).  The     *)
(* numbers of the geometry are binary floating-point numbers rounded to    *)
(* nearest, ties to even, as JavaScript's are; the model keeps FloatBits   *)
(* significant bits where a JavaScript number keeps 53.                    *)
(***************************************************************************)
EXTENDS Integers, Sequences, FiniteSets, TLC

\* ---------------------------------------------------------------- bounds
NumImages == 2      \* photos the picker can return
MaxRuns == 2        \* presses of "Scan & Redact" that are followed
MaxWords == 3       \* words the OCR engine reports for one image
FloatBits == 8      \* significant bits of a floating-point number
MaxDim == 4         \* px of the containers and images a function is given

Images == 1..NumImages
Runs == 1..MaxRuns

\* ---------------------------------------------------------------- values
\* useState<string | null>(null): no image selected.
NoImage == 0

\* null / undefined of the source.
Null == [null |-> TRUE]

\* No Alert.alert call in the step just taken.
NoAlert == "none"

\* Whitespace characters, as String.prototype.trim() sees them.
Whitespace == {" ", "\n"}

\* String.prototype.trim() on a text kept as a sequence of characters.
RECURSIVE TrimStart(_)
TrimStart(s) ==
    IF s # <<>> /\ Head(s) \in Whitespace THEN TrimStart(Tail(s)) ELSE s

RECURSIVE TrimEnd(_)
TrimEnd(s) ==
    IF s # <<>> /\ s[Len(s)] \in Whitespace
    THEN TrimEnd(SubSeq(s, 1, Len(s) - 1))
    ELSE s

Trim(s) == TrimEnd(TrimStart(s))

\* obj.f || dflt for a field that may be missing.
OrElse(obj, f, dflt) == IF f \in DOMAIN obj THEN obj[f] ELSE dflt


\* `{...obj, f: v}`: a copy of obj with field f set.
Spread(obj, f, v) ==
    [k \in DOMAIN obj \cup {f} |-> IF k = f THEN v ELSE obj[k]]

\* ------------------------------------------------ floating-point numbers
\* A finite number is [m, e], the value m * 2^e, with m = 0 and e = 0, or
\* MinSig <= |m| < MaxSig.  The other numbers are NaN and
\* the two infinities.
Pow2(n) == 2 ^ n

\* The significands of the numbers that are not 0: MinSig .. MaxSig - 1.
MinSig == 2 ^ (FloatBits - 1)

MaxSig == 2 ^ FloatBits

Abs(n) == IF n < 0 THEN 0 - n ELSE n

Sign(n) == IF n < 0 THEN 0 - 1 ELSE 1

Zero == [m |-> 0, e |-> 0]

NaN == [special |-> "NaN"]

Infinity(sign) == [special |-> "Infinity", sign |-> sign]

IsNaN(a) == a = NaN

IsInfinite(a) == "special" \in DOMAIN a /\ a.special = "Infinity"

IsFinite(a) == "special" \notin DOMAIN a

\* The sign of a number that is not NaN: -1, 0 or 1.
SignOf(a) ==
    IF IsInfinite(a) THEN a.sign
    ELSE IF a.m = 0 THEN 0 ELSE Sign(a.m)

\* num/den * 2^e with the quotient brought into MinSig .. MaxSig - 1.
RECURSIVE Scaled(_, _, _)
Scaled(num, den, e) ==
    IF num < MinSig * den THEN Scaled(2 * num, den, e - 1)
    ELSE IF num >= MaxSig * den THEN Scaled(num, 2 * den, e + 1)
    ELSE [num |-> num, den |-> den, e |-> e]

\* The floating-point number nearest to sign * num/den * 2^e (num, den > 0),
\* the one with the even significand when two are equally near.
Round(sign, num, den, e) ==
    LET s == Scaled(num, den, e)
        q == s.num \div s.den
        r == s.num % s.den
        up == 2 * r > s.den \/ (2 * r = s.den /\ q % 2 = 1)
        m == IF up THEN q + 1 ELSE q
    IN  IF m = MaxSig
        THEN [m |-> sign * MinSig, e |-> s.e + 1]
        ELSE [m |-> sign * m, e |-> s.e]

\* The number for an integer of the source.
FromInt(n) == IF n = 0 THEN Zero ELSE Round(Sign(n), Abs(n), 1, 0)

\* a + b of two finite numbers.
AddFinite(a, b) ==
    IF a.m = 0 THEN b
    ELSE IF b.m = 0 THEN a
    ELSE LET hi == IF a.e >= b.e THEN a ELSE b
             lo == IF a.e >= b.e THEN b ELSE a
             d == hi.e - lo.e
             sum == hi.m * Pow2(d) + lo.m
         IN  IF d >= FloatBits + 2 THEN hi
             ELSE IF sum = 0 THEN Zero
             ELSE Round(Sign(sum), Abs(sum), 1, lo.e)

Neg(a) ==
    IF IsNaN(a) THEN NaN
    ELSE IF IsInfinite(a) THEN Infinity(0 - a.sign)
    ELSE [m |-> 0 - a.m, e |-> a.e]

\* a + b
FAdd(a, b) ==
    IF IsNaN(a) \/ IsNaN(b) THEN NaN
    ELSE IF IsInfinite(a) /\ IsInfinite(b)
         THEN IF a.sign = b.sign THEN a ELSE NaN
    ELSE IF IsInfinite(a) THEN a
    ELSE IF IsInfinite(b) THEN b
    ELSE AddFinite(a, b)

\* a - b
FSub(a, b) == FAdd(a, Neg(b))

\* a * b
FMul(a, b) ==
    IF IsNaN(a) \/ IsNaN(b) THEN NaN
    ELSE IF IsInfinite(a) \/ IsInfinite(b)
         THEN IF SignOf(a) = 0 \/ SignOf(b) = 0 THEN NaN
              ELSE Infinity(SignOf(a) * SignOf(b))
    ELSE IF a.m = 0 \/ b.m = 0 THEN Zero
    ELSE Round(Sign(a.m) * Sign(b.m), Abs(a.m) * Abs(b.m), 1, a.e + b.e)

\* a / b
FDiv(a, b) ==
    IF IsNaN(a) \/ IsNaN(b) THEN NaN
    ELSE IF IsInfinite(a)
         THEN IF IsInfinite(b) THEN NaN
              ELSE Infinity(a.sign * (IF SignOf(b) < 0 THEN 0 - 1 ELSE 1))
    ELSE IF IsInfinite(b) THEN Zero
    ELSE IF b.m = 0
         THEN IF a.m = 0 THEN NaN ELSE Infinity(Sign(a.m))
    ELSE IF a.m = 0 THEN Zero
    ELSE Round(Sign(a.m) * Sign(b.m), Abs(a.m), Abs(b.m), a.e - b.e)

\* a > b
FGreater(a, b) ==
    IF IsNaN(a) \/ IsNaN(b) THEN FALSE
    ELSE IF IsInfinite(a) THEN a.sign = 1 /\ a # b
    ELSE IF IsInfinite(b) THEN b.sign = 0 - 1
    ELSE SignOf(AddFinite(a, Neg(b))) = 1

\* a >= b
FAtLeast(a, b) ==
    IF IsNaN(a) \/ IsNaN(b) THEN FALSE ELSE a = b \/ FGreater(a, b)

\* !x for a number that may be missing: undefined, 0 and NaN are falsy.
Falsy(x) == x = Null \/ IsNaN(x) \/ (IsFinite(x) /\ x.m = 0)

\* ------------------------------------------------- the OCR engine's data
\* What Tesseract reports for the k-th word of a page: words at even
\* positions come without text and bbox, every word has its own bbox.
RawWord(k) ==
    IF k % 2 = 0
    THEN [confidence |-> 40]
    ELSE [text |-> <<"a">>,
          bbox |-> [x0 |-> 100 * k, y0 |-> 50, x1 |-> 100 * k + 80, y1 |-> 80],
          confidence |-> 90]

\* The words from position s on, n of them.
RawWordsFrom(s, n) == [k \in 1..n |-> RawWord(s + k - 1)]

\* data.text as the engine reports it: the words' texts, one per line.
RECURSIVE RawText(_)
RawText(ws) ==
    IF ws = <<>> THEN <<>>
    ELSE OrElse(Head(ws), "text", <<>>) \o <<"\n">> \o RawText(Tail(ws))

\* The `data` of a page with the n words from position s on.
Page(s, n) == [text |-> RawText(RawWordsFrom(s, n)), words |-> RawWordsFrom(s, n)]

\* A `data` without text and words.
BlankPage == [confidence |-> 0]

\* The results `Tesseract.recognize` can resolve to (its `data`).
TesseractData ==
    {Page(s, n) : s \in 1..2, n \in 1..MaxWords} \cup {BlankPage}

\* The pages of the session specification: one word, or none.
SessionData == {Page(1, 1), BlankPage}

\* The sizes loadImage can resolve to.
ImageSizes == {[width |-> 400, height |-> 200]}

\* One element of `boxes`, built from one of the engine's words.
WorkerBox(w) ==
    [text |-> OrElse(w, "text", <<>>),
     bbox |-> OrElse(w, "bbox", [x0 |-> 0, y0 |-> 0, x1 |-> 0, y1 |-> 0]),
     confidence |-> w.confidence]

\* (data.words || []).map(...)
WorkerBoxes(data) ==
    LET ws == OrElse(data, "words", <<>>)
    IN  [k \in 1..Len(ws) |-> WorkerBox(ws[k])]

\* The success message of the worker's runOcr.
\* Mutant of WorkerSuccess: the worker leaves the image's size out of its
\* message.
WorkerSuccessNoSize(data, imgSize) ==
    [ok |-> TRUE,
     text |-> Trim(OrElse(data, "text", <<>>)),
     boxes |-> WorkerBoxes(data)]

WorkerSuccess(data, imgSize) ==
    [ok |-> TRUE,
     text |-> Trim(OrElse(data, "text", <<>>)),
     boxes |-> WorkerBoxes(data),
     imageSize |-> imgSize]

\* The failure message of the worker's runOcr.
WorkerFailure == [ok |-> FALSE, error |-> "Error"]

\* The readiness message.
ReadyMsg == [ok |-> TRUE, ready |-> TRUE]

\* ------------------------------------------------------- the classifier
EntityA == [entity |-> "EMAIL", word |-> "a", score |-> 90, start |-> 0, end |-> 1]
EntityB == [entity |-> "CITY", word |-> "a", score |-> 80, start |-> 0, end |-> 1]

\* The JSON bodies the /ner endpoint can answer with.
NerBodies ==
    {[entities |-> <<EntityB, EntityA, EntityA>>],
     [entities |-> <<>>],
     [detail |-> "error"]}

\* The fetch of a runNER call rejects (network error, body that is no JSON).
Rejected == [rejected |-> TRUE]

\* The fetch of a runNER call resolves with a body.
Resolved(body) == [rejected |-> FALSE, data |-> body]

\* How the fetch of one runNER call can end.
FetchOutcomes == {Rejected} \cup {Resolved(d) : d \in NerBodies}

\* The outcomes of the session specification.
SessionOutcomes == {Rejected, Resolved([entities |-> <<EntityB, EntityA, EntityA>>])}

\* runNER: throws when the fetch rejects, else returns data.entities, which
\* is undefined (no `value`) when the body has no such field.
RunNER(outcome) ==
    IF outcome.rejected THEN [threw |-> TRUE]
    ELSE IF "entities" \in DOMAIN outcome.data
         THEN [threw |-> FALSE, value |-> outcome.data.entities]
         ELSE [threw |-> FALSE]

\* ------------------------------------------------------ isSensitiveBox
MIN_ENTITY_SCORE == 85

SENSITIVE_CATEGORIES ==
    {"ACCOUNTNUM", "BUILDINGNUM", "CITY", "CREDITCARDNUMBER", "DATEOFBIRTH",
     "DRIVERLICENSENUM", "EMAIL", "GIVENNAME", "IDCARDNUM", "PASSWORD",
     "SOCIALNUM", "STREET", "SURNAME", "TAXNUM", "TELEPHONENUM", "USERNAME",
     "ZIPCODE"}

\* Mutant of SomeSensitive: the category of an entity is not looked at.
RECURSIVE SomeAtLeast(_, _)
SomeAtLeast(entities, minScore) ==
    IF entities = <<>> THEN FALSE
    ELSE \/ OrElse(Head(entities), "score", 0) >= minScore
         \/ SomeAtLeast(Tail(entities), minScore)

\* Mutant of SomeSensitive: an entity counts when its score is at most the
\* threshold.
RECURSIVE SomeSensitiveBelow(_, _)
SomeSensitiveBelow(entities, minScore) ==
    IF entities = <<>> THEN FALSE
    ELSE \/ /\ Head(entities).entity \in SENSITIVE_CATEGORIES
            /\ OrElse(Head(entities), "score", 0) <= minScore
         \/ SomeSensitiveBelow(Tail(entities), minScore)

\* b.entities.some(e => SENSITIVE_CATEGORIES.has(e.entity) &&
\* (e.score ?? 0) >= minScore), the entities visited in order.
RECURSIVE SomeSensitive(_, _)
SomeSensitive(entities, minScore) ==
    IF entities = <<>> THEN FALSE
    ELSE \/ /\ Head(entities).entity \in SENSITIVE_CATEGORIES
            /\ OrElse(Head(entities), "score", 0) >= minScore
         \/ SomeSensitive(Tail(entities), minScore)

\* isSensitiveBox with the threshold as a parameter.
SensitiveAt(b, minScore) ==
    IF "entities" \notin DOMAIN b \/ Len(b.entities) = 0 THEN FALSE
    ELSE SomeSensitive(b.entities, minScore)

isSensitiveBox(b) == SensitiveAt(b, MIN_ENTITY_SCORE)

\* -------------------------------------------------------- the geometry
\* The height of the image container, in px.
containerH == 280

\* The padding of an overlay, in px of the display.
pad == 2

\* A value in an arithmetic expression: undefined converts to NaN.
ToNumber(x) == IF x = Null THEN NaN ELSE x

\* Mutant of computeDisplayedRect: the test of imageW and imageH is missing.
DisplayedRectNoTest(cW, cH, imageW, imageH) ==
    LET imgR == FDiv(ToNumber(imageW), ToNumber(imageH))
        boxR == FDiv(cW, cH)
    IN  IF FGreater(imgR, boxR)
        THEN [displayedW |-> cW, displayedH |-> FDiv(cW, imgR),
              offsetX |-> Zero,
              offsetY |-> FDiv(FSub(cH, FDiv(cW, imgR)), FromInt(2)),
              divisions |-> 4]
        ELSE [displayedW |-> FMul(cH, imgR), displayedH |-> cH,
              offsetX |-> FDiv(FSub(cW, FMul(cH, imgR)), FromInt(2)),
              offsetY |-> Zero,
              divisions |-> 3]

\* Mutant of computeDisplayedRect: the offsets are not halved.
DisplayedRectNotCentred(cW, cH, imageW, imageH) ==
    IF Falsy(imageW) \/ Falsy(imageH)
    THEN [displayedW |-> cW, displayedH |-> cH,
          offsetX |-> Zero, offsetY |-> Zero, divisions |-> 0]
    ELSE LET imgR == FDiv(imageW, imageH)
             boxR == FDiv(cW, cH)
         IN  IF FGreater(imgR, boxR)
             THEN [displayedW |-> cW, displayedH |-> FDiv(cW, imgR),
                   offsetX |-> Zero,
                   offsetY |-> FSub(cH, FDiv(cW, imgR)),
                   divisions |-> 3]
             ELSE [displayedW |-> FMul(cH, imgR), displayedH |-> cH,
                   offsetX |-> FSub(cW, FMul(cH, imgR)),
                   offsetY |-> Zero,
                   divisions |-> 2]

\* computeDisplayedRect(containerW, containerH, imageW, imageH): the
\* rectangle the image takes in the container under resizeMode "contain".
\* `divisions` is history: the divisions the call has performed.
computeDisplayedRect(cW, cH, imageW, imageH) ==
    IF Falsy(imageW) \/ Falsy(imageH)
    THEN [displayedW |-> cW, displayedH |-> cH,
          offsetX |-> Zero, offsetY |-> Zero, divisions |-> 0]
    ELSE LET imgR == FDiv(imageW, imageH)
             boxR == FDiv(cW, cH)
         IN  IF FGreater(imgR, boxR)
             THEN LET displayedW == cW
                      displayedH == FDiv(displayedW, imgR)
                  IN  [displayedW |-> displayedW, displayedH |-> displayedH,
                       offsetX |-> Zero,
                       offsetY |-> FDiv(FSub(cH, displayedH), FromInt(2)),
                       divisions |-> 4]
             ELSE LET displayedH == cH
                      displayedW == FMul(displayedH, imgR)
                  IN  [displayedW |-> displayedW, displayedH |-> displayedH,
                       offsetX |-> FDiv(FSub(cW, displayedW), FromInt(2)),
                       offsetY |-> Zero,
                       divisions |-> 3]

\* Mutant of projectBox: the offsets of the displayed rectangle are left out.
ProjectBoxNoOffset(bbox, imgSize, cW, cH) ==
    LET rect == computeDisplayedRect(cW, cH, imgSize.width, imgSize.height)
        sx == FDiv(rect.displayedW, imgSize.width)
        sy == FDiv(rect.displayedH, imgSize.height)
    IN  [left |-> FSub(FMul(bbox.x0, sx), FromInt(pad)),
         top |-> FSub(FMul(bbox.y0, sy), FromInt(pad)),
         width |-> FAdd(FMul(FSub(bbox.x1, bbox.x0), sx),
                        FMul(FromInt(pad), FromInt(2))),
         height |-> FAdd(FMul(FSub(bbox.y1, bbox.y0), sy),
                         FMul(FromInt(pad), FromInt(2)))]

\* Mutant of projectBox: width and height get the padding once.
ProjectBoxSinglePad(bbox, imgSize, cW, cH) ==
    LET rect == computeDisplayedRect(cW, cH, imgSize.width, imgSize.height)
        sx == FDiv(rect.displayedW, imgSize.width)
        sy == FDiv(rect.displayedH, imgSize.height)
    IN  [left |-> FSub(FAdd(rect.offsetX, FMul(bbox.x0, sx)), FromInt(pad)),
         top |-> FSub(FAdd(rect.offsetY, FMul(bbox.y0, sy)), FromInt(pad)),
         width |-> FAdd(FMul(FSub(bbox.x1, bbox.x0), sx), FromInt(pad)),
         height |-> FAdd(FMul(FSub(bbox.y1, bbox.y0), sy), FromInt(pad))]

\* Mutant of projectBox: width and height are taken from x1 to x0 and from
\* y1 to y0.
ProjectBoxReversed(bbox, imgSize, cW, cH) ==
    LET rect == computeDisplayedRect(cW, cH, imgSize.width, imgSize.height)
        sx == FDiv(rect.displayedW, imgSize.width)
        sy == FDiv(rect.displayedH, imgSize.height)
    IN  [left |-> FSub(FAdd(rect.offsetX, FMul(bbox.x0, sx)), FromInt(pad)),
         top |-> FSub(FAdd(rect.offsetY, FMul(bbox.y0, sy)), FromInt(pad)),
         width |-> FAdd(FMul(FSub(bbox.x0, bbox.x1), sx),
                        FMul(FromInt(pad), FromInt(2))),
         height |-> FAdd(FMul(FSub(bbox.y0, bbox.y1), sy),
                         FMul(FromInt(pad), FromInt(2)))]

\* projectBox(bbox, imgSize, containerW, containerH): the overlay of a
\* word's box, in px of the container.
projectBox(bbox, imgSize, cW, cH) ==
    LET rect == computeDisplayedRect(cW, cH, imgSize.width, imgSize.height)
        sx == FDiv(rect.displayedW, imgSize.width)
        sy == FDiv(rect.displayedH, imgSize.height)
    IN  [left |-> FSub(FAdd(rect.offsetX, FMul(bbox.x0, sx)), FromInt(pad)),
         top |-> FSub(FAdd(rect.offsetY, FMul(bbox.y0, sy)), FromInt(pad)),
         width |-> FAdd(FMul(FSub(bbox.x1, bbox.x0), sx),
                        FMul(FromInt(pad), FromInt(2))),
         height |-> FAdd(FMul(FSub(bbox.y1, bbox.y0), sy),
                         FMul(FromInt(pad), FromInt(2)))]

\* The numbers of a record of integers.
Numbers(rec) == [f \in DOMAIN rec |-> FromInt(rec[f])]

\* ------------------------------------------------------------- the state
VARIABLES
    imageUri,       \* host: the selected image, or NoImage
    isProcessing,   \* host: disables the "Scan & Redact" button
    showBlur,       \* host: overlays shown
    containerW,     \* host: the laid-out width of the image container
    results,        \* host: the stored OCRResultWithNER, or Null
    alert,          \* host: the Alert.alert of the step just taken
    pickPc,         \* host: where pickImage stands
    reads,          \* host: runOCR calls awaiting readAsStringAsync
    enrich,         \* host: the runNERForBoxes call of each run
    toWorker,       \* bridge: messages posted to the worker, in order
    toHost,         \* bridge: messages posted to the host, in order
    workerLoaded,   \* worker: its script has run
    jobs,           \* worker: runOcr calls in progress
    nextRun,        \* history: the number the next runOCR call gets
    resultsLog,     \* history: the run that produced `results`
    malformed,      \* history: the runs unanswered when unparseable data was handled
    call            \* a call of a pure function taken on its own, or Null

vars ==
    <<imageUri, isProcessing, showBlur, containerW, results, alert, pickPc,
      reads, enrich, toWorker, toHost, workerLoaded, jobs, nextRun,
      resultsLog, malformed, call>>

hostVars == <<imageUri, isProcessing, showBlur, results, resultsLog>>

\* A message on the bridge with the run it belongs to (the run and its
\* image are history: the program's messages carry neither).
Envelope(data, run, image) == [data |-> data, run |-> run, image |-> image]

\* The data of a message that JSON.parse throws on.
Unparseable == [unparseable |-> TRUE]

Parses(msg) == "unparseable" \notin DOMAIN msg

\* The runNERForBoxes call of a run that has not started one.
Idle == [status |-> "idle"]

\* The runNERForBoxes call of a run whose promise has resolved.
Done == [status |-> "done"]

Init ==
    /\ imageUri = NoImage
    /\ isProcessing = FALSE
    /\ showBlur = TRUE
    /\ containerW = 0
    /\ results = Null
    /\ alert = NoAlert
    /\ pickPc = "idle"
    /\ reads = {}
    /\ enrich = [r \in Runs |-> Idle]
    /\ toWorker = <<>>
    /\ toHost = <<>>
    /\ workerLoaded = FALSE
    /\ jobs = {}
    /\ nextRun = 1
    /\ resultsLog = Null
    /\ malformed = {}
    /\ call = Null

\* --------------------------------------------------------- pickImage
\* pickImage up to its first await (the permission request).
\* Mutant of PickImage: the buttons that call pickImage are disabled while
\* a recognition is processing.
PickImageWhenIdle ==
    /\ pickPc = "idle"
    /\ ~isProcessing
    /\ pickPc' = "perm"
    /\ alert' = NoAlert
    /\ UNCHANGED <<containerW, call, malformed, hostVars, reads, enrich, toWorker,
                   toHost, workerLoaded, jobs, nextRun>>

PickImage ==
    /\ pickPc = "idle"
    /\ pickPc' = "perm"
    /\ alert' = NoAlert
    /\ UNCHANGED <<containerW, call, malformed, hostVars, reads, enrich, toWorker,
                   toHost, workerLoaded, jobs, nextRun>>

\* The permission request resolves: the picker opens, or the user is told.
PickPermission(granted) ==
    /\ pickPc = "perm"
    /\ pickPc' = IF granted THEN "picker" ELSE "idle"
    /\ alert' = IF granted THEN NoAlert ELSE "Permission needed"
    /\ UNCHANGED <<containerW, call, malformed, hostVars, reads, enrich, toWorker,
                   toHost, workerLoaded, jobs, nextRun>>

\* The picker resolves: cancelled, or with the asset `uri` (setImageUri).
PickResult(canceled, uri) ==
    /\ pickPc = "picker"
    /\ pickPc' = "idle"
    /\ alert' = NoAlert
    /\ imageUri' = IF canceled THEN imageUri ELSE uri
    /\ UNCHANGED <<containerW, call, malformed, isProcessing, showBlur, results,
                   resultsLog, reads, enrich, toWorker, toHost, workerLoaded,
                   jobs, nextRun>>

\* ------------------------------------------------------------- runOCR
\* Mutant of RunOCR: the button is there, and runOCR goes on, without an
\* image selected.
RunOCRWithoutImage ==
    /\ ~isProcessing
    /\ nextRun <= MaxRuns
    /\ isProcessing' = TRUE
    /\ reads' = reads \cup {[run |-> nextRun, image |-> imageUri]}
    /\ nextRun' = nextRun + 1
    /\ alert' = NoAlert
    /\ UNCHANGED <<containerW, call, malformed, imageUri, showBlur, results, resultsLog,
                   pickPc, enrich, toWorker, toHost, workerLoaded, jobs>>

\* A press of "Scan & Redact" (rendered when an image is selected,
\* disabled while isProcessing): runOCR up to the await of the file read.
RunOCR ==
    /\ imageUri # NoImage
    /\ ~isProcessing
    /\ nextRun <= MaxRuns
    /\ isProcessing' = TRUE
    /\ reads' = reads \cup {[run |-> nextRun, image |-> imageUri]}
    /\ nextRun' = nextRun + 1
    /\ alert' = NoAlert
    /\ UNCHANGED <<containerW, call, malformed, imageUri, showBlur, results, resultsLog,
                   pickPc, enrich, toWorker, toHost, workerLoaded, jobs>>

\* The contents readAsStringAsync can resolve to for an image: the base64
\* of an empty file, or of the image's bytes.
FileContents(image) == {<<>>, <<image>>}

\* The request runOCR posts.
OcrRequest(base64) == [cmd |-> "ocr", imageBase64 |-> base64]

\* The file read resolves: runOCR posts the request.
ReadDone(rd, base64) ==
    /\ rd \in reads
    /\ reads' = reads \ {rd}
    /\ toWorker' = Append(toWorker, Envelope(OcrRequest(base64), rd.run, rd.image))
    /\ alert' = NoAlert
    /\ UNCHANGED <<containerW, call, malformed, hostVars, pickPc, enrich, toHost,
                   workerLoaded, jobs, nextRun>>

\* Mutant of ReadFail: the catch tells the user and leaves isProcessing set.
ReadFailNoReset(rd) ==
    /\ rd \in reads
    /\ reads' = reads \ {rd}
    /\ alert' = "Read error"
    /\ UNCHANGED <<containerW, call, malformed, hostVars, pickPc, enrich, toWorker,
                   toHost, workerLoaded, jobs, nextRun>>

\* The file read rejects: runOCR's catch.
ReadFail(rd) ==
    /\ rd \in reads
    /\ reads' = reads \ {rd}
    /\ isProcessing' = FALSE
    /\ alert' = "Read error"
    /\ UNCHANGED <<containerW, call, malformed, imageUri, showBlur, results, resultsLog,
                   pickPc, enrich, toWorker, toHost, workerLoaded, jobs,
                   nextRun>>

\* ----------------------------------------------------------- the worker
\* The worker's script runs: it adds its listeners and reports readiness.
\* Mutant of WorkerStart: the script sends its readiness once for each of
\* the two listeners it adds.
WorkerStartReadyTwice ==
    /\ ~workerLoaded
    /\ workerLoaded' = TRUE
    /\ toHost' = toHost \o <<Envelope(ReadyMsg, 0, NoImage),
                             Envelope(ReadyMsg, 0, NoImage)>>
    /\ alert' = NoAlert
    /\ UNCHANGED <<containerW, call, malformed, hostVars, pickPc, reads, enrich,
                   toWorker, jobs, nextRun>>

WorkerStart ==
    /\ ~workerLoaded
    /\ workerLoaded' = TRUE
    /\ toHost' = Append(toHost, Envelope(ReadyMsg, 0, NoImage))
    /\ alert' = NoAlert
    /\ UNCHANGED <<containerW, call, malformed, hostVars, pickPc, reads, enrich,
                   toWorker, jobs, nextRun>>

\* A message reaches the page before its script has added a listener:
\* nothing handles it.
WorkerMissed ==
    /\ ~workerLoaded
    /\ toWorker # <<>>
    /\ toWorker' = Tail(toWorker)
    /\ alert' = NoAlert
    /\ UNCHANGED <<containerW, call, malformed, hostVars, pickPc, reads, enrich, toHost,
                   workerLoaded, jobs, nextRun>>

\* onMsg's test of a parsed message.
IsOcrCommand(msg) == msg.cmd = "ocr" /\ msg.imageBase64 # <<>>

\* What onMsg's catch sends.
BadMessage == [ok |-> FALSE, error |-> "Bad message"]

\* onMsg: a request with a non-empty image starts runOcr, any other
\* message that parses is ignored, and one JSON.parse throws on is
\* answered from the catch.
WorkerOnMsg ==
    /\ workerLoaded
    /\ toWorker # <<>>
    /\ LET env == Head(toWorker)
       IN  IF ~Parses(env.data)
           THEN /\ toHost' = Append(toHost, Envelope(BadMessage, env.run, env.image))
                /\ jobs' = jobs
           ELSE /\ jobs' = IF IsOcrCommand(env.data)
                           THEN jobs \cup {[run |-> env.run, image |-> env.image]}
                           ELSE jobs
                /\ toHost' = toHost
    /\ toWorker' = Tail(toWorker)
    /\ alert' = NoAlert
    /\ UNCHANGED <<containerW, call, malformed, hostVars, pickPc, reads, enrich,
                   workerLoaded, nextRun>>

\* runOcr resolves loadImage and Tesseract.recognize and sends the result.
WorkerRunOcrDone(job, data, imgSize) ==
    /\ job \in jobs
    /\ jobs' = jobs \ {job}
    /\ toHost' = Append(toHost, Envelope(WorkerSuccess(data, imgSize), job.run, job.image))
    /\ alert' = NoAlert
    /\ UNCHANGED <<containerW, call, malformed, hostVars, pickPc, reads, enrich,
                   toWorker, workerLoaded, nextRun>>

\* loadImage or Tesseract.recognize rejects: runOcr's catch.
WorkerRunOcrFail(job) ==
    /\ job \in jobs
    /\ jobs' = jobs \ {job}
    /\ toHost' = Append(toHost, Envelope(WorkerFailure, job.run, job.image))
    /\ alert' = NoAlert
    /\ UNCHANGED <<containerW, call, malformed, hostVars, pickPc, reads, enrich,
                   toWorker, workerLoaded, nextRun>>

\* No unparseable data, and no answer to it, is on the bridge.
BridgeClean ==
    /\ \A k \in 1..Len(toWorker) : Parses(toWorker[k].data)
    /\ \A k \in 1..Len(toHost) :
           Parses(toHost[k].data) /\ toHost[k].data # BadMessage

\* A message event that is not a request of the host reaches onMsg with
\* data JSON.parse throws on.  It belongs to no run.
MalformedRequest ==
    /\ BridgeClean
    /\ toWorker' = Append(toWorker, Envelope(Unparseable, 0, NoImage))
    /\ alert' = NoAlert
    /\ UNCHANGED <<containerW, call, malformed, hostVars, pickPc, reads, enrich,
                   toHost, workerLoaded, jobs, nextRun>>

\* onWebViewMessage is called with data JSON.parse throws on.  It belongs
\* to no run.
MalformedResponse ==
    /\ BridgeClean
    /\ toHost' = Append(toHost, Envelope(Unparseable, 0, NoImage))
    /\ alert' = NoAlert
    /\ UNCHANGED <<containerW, call, malformed, hostVars, pickPc, reads, enrich,
                   toWorker, workerLoaded, jobs, nextRun>>

\* ------------------------------------------------------ runNERForBoxes
\* A sequence without its repeated elements.
RECURSIVE Dedup(_)
Dedup(s) ==
    IF s = <<>> THEN <<>>
    ELSE LET rest == Dedup(SubSeq(s, 1, Len(s) - 1))
         IN  IF \E k \in 1..Len(rest) : rest[k] = s[Len(s)]
             THEN rest
             ELSE Append(rest, s[Len(s)])

\* Mutant of Enriched: the entities are de-duplicated before they are attached.
EnrichedDedup(box, res) == Spread(box, "entities", Dedup(OrElse(res, "value", <<>>)))

\* The element pushed when runNER returned: `{...box, entities: entities || []}`.
Enriched(box, res) == Spread(box, "entities", OrElse(res, "value", <<>>))

\* The element pushed by the catch: `{...box, entities: []}`.
Caught(box) == Spread(box, "entities", <<>>)

\* runNERForBoxes up to its first await: the call of runNER for the first
\* box is outstanding, or, without boxes, the function has returned.
\* `sent` and `replies` are history: the texts given to runNER, and how
\* each call ended.
NewTask(record) ==
    [status |-> IF record.boxes = <<>> THEN "done" ELSE "running",
     record |-> record,
     idx |-> 1,
     updatedBoxes |-> <<>>,
     sent |-> IF record.boxes = <<>> THEN <<>> ELSE <<record.boxes[1].text>>,
     replies |-> <<>>]

\* Mutant of Settle: the loop has no catch, so a runNER call that throws
\* rejects the promise of runNERForBoxes.
SettleNoCatch(t, outcome) ==
    LET box == t.record.boxes[t.idx]
        res == RunNER(outcome)
        last == t.idx = Len(t.record.boxes)
    IN  IF res.threw
        THEN [t EXCEPT !.status = "rejected", !.replies = Append(@, outcome)]
        ELSE [t EXCEPT
                !.status = IF last THEN "done" ELSE "running",
                !.idx = t.idx + 1,
                !.updatedBoxes = Append(@, Enriched(box, res)),
                !.sent = IF last THEN @ ELSE Append(@, t.record.boxes[t.idx + 1].text),
                !.replies = Append(@, outcome)]

\* Mutant of Settle: the catch logs the error and pushes nothing.
SettleSkipsFailed(t, outcome) ==
    LET box == t.record.boxes[t.idx]
        res == RunNER(outcome)
        last == t.idx = Len(t.record.boxes)
    IN  [t EXCEPT
           !.status = IF last THEN "done" ELSE "running",
           !.idx = t.idx + 1,
           !.updatedBoxes = IF res.threw THEN @ ELSE Append(@, Enriched(box, res)),
           !.sent = IF last THEN @ ELSE Append(@, t.record.boxes[t.idx + 1].text),
           !.replies = Append(@, outcome)]

\* The outstanding runNER call of task t ends with `outcome`: the loop
\* pushes the box and calls runNER for the next box, or returns.
Settle(t, outcome) ==
    LET box == t.record.boxes[t.idx]
        res == RunNER(outcome)
        last == t.idx = Len(t.record.boxes)
    IN  [t EXCEPT
           !.status = IF last THEN "done" ELSE "running",
           !.idx = t.idx + 1,
           !.updatedBoxes =
               Append(@, IF res.threw THEN Caught(box) ELSE Enriched(box, res)),
           !.sent = IF last THEN @ ELSE Append(@, t.record.boxes[t.idx + 1].text),
           !.replies = Append(@, outcome)]

\* The value runNERForBoxes returns: `{...record, boxes: updatedBoxes}`.
EnrichedResult(t) == Spread(t.record, "boxes", t.updatedBoxes)

\* What `resultsLog` keeps of the task whose result is stored.
LogOf(t, run, image) ==
    [run |-> run, image |-> image, record |-> t.record, sent |-> t.sent,
     replies |-> t.replies]

\* A runNER call of run r ends; when it was the last one, the promise of
\* runNERForBoxes resolves and its then-callback stores the result.
NerSettle(r, outcome) ==
    /\ enrich[r].status = "running"
    /\ LET t == Settle(enrich[r].task, outcome)
       IN  IF t.status = "done"
           THEN /\ results' = EnrichedResult(t)
                /\ resultsLog' = LogOf(t, r, enrich[r].image)
                /\ enrich' = [enrich EXCEPT ![r] = Done]
           ELSE /\ enrich' = [enrich EXCEPT ![r].task = t, ![r].status = t.status]
                /\ UNCHANGED <<results, resultsLog>>
    /\ alert' = NoAlert
    /\ UNCHANGED <<containerW, call, malformed, imageUri, isProcessing, showBlur, pickPc,
                   reads, toWorker, toHost, workerLoaded, jobs, nextRun>>

\* ---------------------------------------------------- onWebViewMessage
IsReady(msg) == "ready" \in DOMAIN msg /\ msg.ready

IsSuccess(msg) == msg.ok /\ "text" \in DOMAIN msg

\* The OCRResult the handler builds from a success message.
RecordOf(payload) ==
    [text |-> Trim(payload.text),
     boxes |-> OrElse(payload, "boxes", <<>>),
     imageSize |-> OrElse(payload, "imageSize", [width |-> 0, height |-> 0])]

\* The runs that have started and whose response the host has not handled.
Unanswered ==
    {rd.run : rd \in reads}
    \cup {toWorker[k].run : k \in 1..Len(toWorker)}
    \cup {job.run : job \in jobs}
    \cup {toHost[k].run : k \in 1..Len(toHost)}

\* The runs the host's handling of a message reports an error of the
\* bridge to: those unanswered when it handles unparseable data or the
\* worker's answer to unparseable data (history).
MalformedAfter(msg) ==
    IF ~Parses(msg) \/ msg = BadMessage
    THEN malformed \cup (Unanswered \cap Runs)
    ELSE malformed

\* Mutant of OnWebViewMessage: isProcessing is cleared after a success
\* message only, and not in a finally block.
OnWebViewMessageNoFinally ==
    /\ toHost # <<>>
    /\ LET env == Head(toHost)
           msg == env.data
           t == NewTask(RecordOf(msg))
       IN  IF ~Parses(msg)
           THEN /\ alert' = "Bridge error"
                /\ UNCHANGED <<results, resultsLog, enrich, isProcessing>>
           ELSE IF IsReady(msg)
           THEN /\ alert' = NoAlert
                /\ UNCHANGED <<results, resultsLog, enrich, isProcessing>>
           ELSE IF IsSuccess(msg)
           THEN /\ alert' = NoAlert
                /\ isProcessing' = FALSE
                /\ IF t.status = "done"
                   THEN /\ results' = EnrichedResult(t)
                        /\ resultsLog' = LogOf(t, env.run, env.image)
                        /\ enrich' = [enrich EXCEPT ![env.run] = Done]
                   ELSE /\ enrich' = [enrich EXCEPT ![env.run] =
                               [status |-> "running", image |-> env.image,
                                selected |-> imageUri, task |-> t]]
                        /\ UNCHANGED <<results, resultsLog>>
           ELSE /\ alert' = IF ~msg.ok THEN "OCR error" ELSE NoAlert
                /\ UNCHANGED <<results, resultsLog, enrich, isProcessing>>
    /\ toHost' = Tail(toHost)
    /\ malformed' = MalformedAfter(Head(toHost).data)
    /\ UNCHANGED <<containerW, call, imageUri, showBlur, pickPc, reads,
                   toWorker, workerLoaded, jobs, nextRun>>

\* The host handles the next message of the worker.  Every path, the
\* catch of a message JSON.parse throws on included, ends in the finally
\* block, which clears isProcessing.  With the task of a run
\* the model keeps the run's image and the image selected when the
\* enrichment began (history).
OnWebViewMessage ==
    /\ toHost # <<>>
    /\ LET env == Head(toHost)
           msg == env.data
           t == NewTask(RecordOf(msg))
       IN  IF ~Parses(msg)
           THEN /\ alert' = "Bridge error"
                /\ UNCHANGED <<results, resultsLog, enrich>>
           ELSE IF IsReady(msg)
           THEN /\ alert' = NoAlert
                /\ UNCHANGED <<results, resultsLog, enrich>>
           ELSE IF IsSuccess(msg)
           THEN /\ alert' = NoAlert
                /\ IF t.status = "done"
                   THEN /\ results' = EnrichedResult(t)
                        /\ resultsLog' = LogOf(t, env.run, env.image)
                        /\ enrich' = [enrich EXCEPT ![env.run] = Done]
                   ELSE /\ enrich' = [enrich EXCEPT ![env.run] =
                               [status |-> "running", image |-> env.image,
                                selected |-> imageUri, task |-> t]]
                        /\ UNCHANGED <<results, resultsLog>>
           ELSE /\ alert' = IF ~msg.ok THEN "OCR error" ELSE NoAlert
                /\ UNCHANGED <<results, resultsLog, enrich>>
    /\ toHost' = Tail(toHost)
    /\ isProcessing' = FALSE
    /\ malformed' = MalformedAfter(Head(toHost).data)
    /\ UNCHANGED <<containerW, call, imageUri, showBlur, pickPc, reads,
                   toWorker, workerLoaded, jobs, nextRun>>

\* ---------------------------------------------------------- the layout
\* The widths the image container can be laid out with.
LayoutWidths == {300}

\* onLayout of the image container (rendered when an image is selected):
\* setContainerW.
OnLayout(width) ==
    /\ imageUri # NoImage
    /\ containerW # width
    /\ containerW' = width
    /\ alert' = NoAlert
    /\ UNCHANGED <<imageUri, isProcessing, showBlur, results, resultsLog,
                   pickPc, reads, enrich, toWorker, toHost, workerLoaded,
                   jobs, nextRun, malformed, call>>

\* ------------------------------------------------------ the blur toggle
\* Mutant of ToggleBlur: the press discards the stored result as well.
ToggleBlurDiscards ==
    /\ imageUri # NoImage
    /\ results # Null
    /\ showBlur' = ~showBlur
    /\ results' = Null
    /\ resultsLog' = Null
    /\ alert' = NoAlert
    /\ UNCHANGED <<containerW, call, malformed, imageUri, isProcessing, pickPc, reads,
                   enrich, toWorker, toHost, workerLoaded, jobs, nextRun>>

\* A press of "Show Original" / "Hide Sensitive" (rendered when an image
\* is selected and a result is stored).
ToggleBlur ==
    /\ imageUri # NoImage
    /\ results # Null
    /\ showBlur' = ~showBlur
    /\ alert' = NoAlert
    /\ UNCHANGED <<containerW, call, malformed, imageUri, isProcessing, results,
                   resultsLog, pickPc, reads, enrich, toWorker, toHost,
                   workerLoaded, jobs, nextRun>>

\* ---------------------------------------------------- the specification
\* The steps of the session.  No step of it reads containerW: the layout
\* of the image container is followed in EnrichSpec.
Next ==
    \/ PickImage
    \/ \E granted \in BOOLEAN : PickPermission(granted)
    \/ \E canceled \in BOOLEAN, uri \in Images : PickResult(canceled, uri)
    \/ RunOCR
    \/ \E rd \in reads : \E base64 \in FileContents(rd.image) : ReadDone(rd, base64)
    \/ \E rd \in reads : ReadFail(rd)
    \/ WorkerStart
    \/ WorkerMissed
    \/ WorkerOnMsg
    \/ \E job \in jobs, data \in SessionData, imgSize \in ImageSizes :
           WorkerRunOcrDone(job, data, imgSize)
    \/ \E job \in jobs : WorkerRunOcrFail(job)
    \/ OnWebViewMessage
    \/ \E r \in Runs, outcome \in SessionOutcomes : NerSettle(r, outcome)
    \/ ToggleBlur

Spec == Init /\ [][Next]_vars

\* The event loop runs a queued message event, and every classifier call
\* resolves or rejects.
FairSpec ==
    /\ Spec
    /\ WF_vars(OnWebViewMessage)
    /\ \A r \in Runs : WF_vars(\E outcome \in SessionOutcomes : NerSettle(r, outcome))

\* Every asynchronous step of a recognition is taken in the end: the file
\* read resolves or rejects, the page runs its script and its listener,
\* the worker answers every request it has accepted, and the event loop
\* runs the host's handler.
FairBridgeSpec ==
    /\ Spec
    /\ WF_vars(\E rd \in reads :
                   \/ \E base64 \in FileContents(rd.image) : ReadDone(rd, base64)
                   \/ ReadFail(rd))
    /\ WF_vars(WorkerStart)
    /\ WF_vars(WorkerMissed \/ WorkerOnMsg)
    /\ WF_vars(\E job \in jobs :
                   \/ \E data \in SessionData, imgSize \in ImageSizes :
                          WorkerRunOcrDone(job, data, imgSize)
                   \/ WorkerRunOcrFail(job))
    /\ WF_vars(OnWebViewMessage)

\* The bridge with message events that are not the other side's: an image
\* is selected, and recognitions run while either side may be handed data
\* JSON.parse throws on.
MalformedInit ==
    /\ imageUri \in Images
    /\ isProcessing = FALSE
    /\ showBlur = TRUE
    /\ containerW = 0
    /\ results = Null
    /\ alert = NoAlert
    /\ pickPc = "idle"
    /\ reads = {}
    /\ enrich = [r \in Runs |-> Idle]
    /\ toWorker = <<>>
    /\ toHost = <<>>
    /\ workerLoaded = FALSE
    /\ jobs = {}
    /\ nextRun = 1
    /\ resultsLog = Null
    /\ malformed = {}
    /\ call = Null

MalformedNext ==
    \/ RunOCR
    \/ \E rd \in reads : \E base64 \in FileContents(rd.image) : ReadDone(rd, base64)
    \/ WorkerStart
    \/ WorkerMissed
    \/ WorkerOnMsg
    \/ \E job \in jobs, data \in SessionData, imgSize \in ImageSizes :
           WorkerRunOcrDone(job, data, imgSize)
    \/ \E job \in jobs : WorkerRunOcrFail(job)
    \/ OnWebViewMessage
    \/ \E r \in Runs, outcome \in SessionOutcomes : NerSettle(r, outcome)
    \/ MalformedRequest
    \/ MalformedResponse

MalformedSpec == MalformedInit /\ [][MalformedNext]_vars

\* The session from the moment the worker has answered the first run with
\* a success message: runNERForBoxes applied to every result of the engine.
EnrichInit ==
    /\ imageUri = 1
    /\ isProcessing = TRUE
    /\ showBlur = TRUE
    /\ containerW = 0
    /\ results = Null
    /\ alert = NoAlert
    /\ pickPc = "idle"
    /\ reads = {}
    /\ enrich = [r \in Runs |-> Idle]
    /\ toWorker = <<>>
    /\ \E data \in TesseractData, imgSize \in ImageSizes :
           toHost = <<Envelope(WorkerSuccess(data, imgSize), 1, 1)>>
    /\ workerLoaded = TRUE
    /\ jobs = {}
    /\ nextRun = 2
    /\ resultsLog = Null
    /\ malformed = {}
    /\ call = Null

\* The handler and the classifier calls of that run, the layout of the
\* image container, and what the user can do meanwhile apart from starting
\* another run.
EnrichNext ==
    \/ OnWebViewMessage
    \/ \E r \in Runs, outcome \in FetchOutcomes : NerSettle(r, outcome)
    \/ PickImage
    \/ \E granted \in BOOLEAN : PickPermission(granted)
    \/ \E canceled \in BOOLEAN, uri \in Images : PickResult(canceled, uri)
    \/ \E width \in LayoutWidths : OnLayout(width)
    \/ ToggleBlur

EnrichSpec == EnrichInit /\ [][EnrichNext]_vars

\* What the screen renders over the image of that run: the handler and the
\* classifier calls, the layout of the image container and the blur
\* toggle, with the selected image kept.
OverlayNext ==
    \/ OnWebViewMessage
    \/ \E r \in Runs, outcome \in FetchOutcomes : NerSettle(r, outcome)
    \/ \E width \in LayoutWidths : OnLayout(width)
    \/ ToggleBlur

OverlaySpec == EnrichInit /\ [][OverlayNext]_vars

\* The event loop runs a queued message event, and every classifier call
\* resolves or rejects.
FairEnrichSpec ==
    /\ EnrichSpec
    /\ WF_vars(OnWebViewMessage)
    /\ \A r \in Runs : WF_vars(\E outcome \in FetchOutcomes : NerSettle(r, outcome))

\* --------------------------------------- the pure functions on their own
\* The entities a word can carry: a sensitive and another category, scores
\* around MIN_ENTITY_SCORE, and an entity without score.
ProbeEntities ==
    {[entity |-> c, score |-> sc] : c \in {"EMAIL", "LOCATION"}, sc \in {80, 85, 90}}
        \cup {[entity |-> c] : c \in {"EMAIL", "LOCATION"}}

\* The words isSensitiveBox is given: without entities, with none, with one
\* and with two.
ProbeBoxes ==
    {[text |-> <<"a">>], [text |-> <<"a">>, entities |-> <<>>]}
        \cup {[text |-> <<"a">>, entities |-> <<e>>] : e \in ProbeEntities}
        \cup {[text |-> <<"a">>, entities |-> <<e, f>>] : e, f \in ProbeEntities}

\* The sides of an image: a side can be missing or 0.
ProbeSides == {Null} \cup {FromInt(n) : n \in 0..MaxDim}

\* A call of computeDisplayedRect on integers.
RectCall(cW, cH, imageW, imageH) ==
    [fn |-> "computeDisplayedRect", args |-> <<FromInt(cW), FromInt(cH), imageW, imageH>>]

\* A call of projectBox on integers.
ProjectCall(bbox, imgSize, cW, cH) ==
    [fn |-> "projectBox",
     args |-> <<Numbers(bbox), Numbers(imgSize), FromInt(cW), FromInt(cH)>>]

\* The image of 400 x 200 px in the container of 300 x 280 px, and one of
\* its words.
ScenarioSize == [width |-> 400, height |-> 200]

ScenarioBox == [x0 |-> 100, y0 |-> 50, x1 |-> 200, y1 |-> 80]

\* A size whose aspect ratio, 15 / 11, is no floating-point number.
RoundedSize == [width |-> 15, height |-> 11]

\* The call has returned.
HasReturned(c) == "value" \in DOMAIN c

CallIsSensitiveBox ==
    /\ call # Null /\ ~HasReturned(call)
    /\ call.fn = "isSensitiveBox"
    /\ call' = Spread(call, "value", isSensitiveBox(call.args[1]))
    /\ UNCHANGED <<imageUri, isProcessing, showBlur, containerW, results, alert,
                   pickPc, reads, enrich, toWorker, toHost, workerLoaded, jobs,
                   nextRun, resultsLog, malformed>>

CallComputeDisplayedRect ==
    /\ call # Null /\ ~HasReturned(call)
    /\ call.fn = "computeDisplayedRect"
    /\ call' = Spread(call, "value",
                      computeDisplayedRect(call.args[1], call.args[2],
                                           call.args[3], call.args[4]))
    /\ UNCHANGED <<imageUri, isProcessing, showBlur, containerW, results, alert,
                   pickPc, reads, enrich, toWorker, toHost, workerLoaded, jobs,
                   nextRun, resultsLog, malformed>>

CallProjectBox ==
    /\ call # Null /\ ~HasReturned(call)
    /\ call.fn = "projectBox"
    /\ call' = Spread(call, "value",
                      projectBox(call.args[1], call.args[2],
                                 call.args[3], call.args[4]))
    /\ UNCHANGED <<imageUri, isProcessing, showBlur, containerW, results, alert,
                   pickPc, reads, enrich, toWorker, toHost, workerLoaded, jobs,
                   nextRun, resultsLog, malformed>>

\* One call of isSensitiveBox, computeDisplayedRect or projectBox, with
\* nothing else of the screen going on.
CallInit ==
    /\ \/ \E b \in ProbeBoxes : call = [fn |-> "isSensitiveBox", args |-> <<b>>]
       \/ \E cW \in 0..MaxDim, cH \in 0..MaxDim :
              \E imageW \in ProbeSides, imageH \in ProbeSides :
                  call = RectCall(cW, cH, imageW, imageH)
       \/ call = RectCall(300, containerH, FromInt(400), FromInt(200))
       \/ call = RectCall(RoundedSize.width, RoundedSize.height,
                          FromInt(RoundedSize.width), FromInt(RoundedSize.height))
       \/ \E w \in 1..MaxDim, h \in 1..MaxDim, cW \in 1..MaxDim, cH \in 1..MaxDim :
              \E x0 \in 0..w, y0 \in 0..h :
                  \E x1 \in x0..w, y1 \in y0..h :
                      call = ProjectCall([x0 |-> x0, y0 |-> y0, x1 |-> x1, y1 |-> y1],
                                         [width |-> w, height |-> h], cW, cH)
       \/ call = ProjectCall(ScenarioBox, ScenarioSize, 300, containerH)
    /\ imageUri = NoImage
    /\ isProcessing = FALSE
    /\ showBlur = TRUE
    /\ containerW = 0
    /\ results = Null
    /\ alert = NoAlert
    /\ pickPc = "idle"
    /\ reads = {}
    /\ enrich = [r \in Runs |-> Idle]
    /\ toWorker = <<>>
    /\ toHost = <<>>
    /\ workerLoaded = FALSE
    /\ jobs = {}
    /\ nextRun = 1
    /\ resultsLog = Null
    /\ malformed = {}

CallNext ==
    \/ CallIsSensitiveBox
    \/ CallComputeDisplayedRect
    \/ CallProjectBox

CallSpec == CallInit /\ [][CallNext]_vars

\* --------------------------------------------------- terms of the claims
\* The host has handled the worker's readiness message.
HostSawReady ==
    workerLoaded /\ \A k \in 1..Len(toHost) : ~IsReady(toHost[k].data)

\* The runs whose request is posted and whose response the host has not
\* handled yet.
InFlight ==
    {toWorker[k].run : k \in 1..Len(toWorker)}
    \cup {job.run : job \in jobs}
    \cup {toHost[k].run : k \in {i \in 1..Len(toHost) : ~IsReady(toHost[i].data)}}

\* The runs with an outstanding classifier call.
Enriching == {r \in Runs : enrich[r].status = "running"}

\* Nothing of any run is outstanding.
Quiescent ==
    /\ reads = {}
    /\ toWorker = <<>>
    /\ jobs = {}
    /\ toHost = <<>>
    /\ Enriching = {}

\* The run started last.
LastRun == nextRun - 1

\* The positions of the stored result's words whose classifier call threw.
FailedWords == {k \in 1..Len(resultsLog.replies) : resultsLog.replies[k].rejected}

\* What the classifier returned for a call that did not throw: the
\* entities of the body, none when the body has no such field.
Returned(outcome) == OrElse(outcome.data, "entities", <<>>)

\* C1: when an image is selected while a run on the image selected before
\* is enriching, the completion of that enrichment does not write `results`.
C1_NoStaleImageWrite ==
    [][\A r \in Runs :
          (/\ enrich[r].status = "running"
           /\ enrich'[r].status = "done"
           /\ enrich[r].selected = enrich[r].image
           /\ imageUri' # enrich[r].image)
              => UNCHANGED <<results, resultsLog>>]_vars

\* C2: once nothing is outstanding and the run started last has completed
\* its enrichment, `results` holds that run's result.
C2_LastRunWins ==
    (Quiescent /\ LastRun >= 2 /\ enrich[LastRun].status = "done")
        => resultsLog.run = LastRun

\* C3: a selection that changes the image leaves `results` empty.
C3_SelectionDiscardsResult ==
    [][imageUri' # imageUri => results' = Null]_vars

\* C4: a request is on its way to the worker only after the host has
\* handled the readiness message.
C4_NoRequestBeforeReady ==
    toWorker # <<>> => HostSawReady

\* C5: at most one request is in flight, and the trigger is disabled while
\* one is.
C5_SingleFlight ==
    /\ Cardinality(InFlight) <= 1
    /\ InFlight # {} => isProcessing

\* C6: when exactly one classifier call of the stored result's run threw,
\* that word has no entities and every other word has the entities the
\* classifier returned for it; no enrichment ends rejected, and the host
\* stores the result of every enrichment that ends.
C6_OneFailureIsolated ==
    /\ \A r \in Runs : enrich[r].status \in {"idle", "running", "done"}
    /\ \A r \in Runs : enrich[r].status = "done" => results # Null
    /\ (results # Null /\ Cardinality(FailedWords) = 1) =>
          /\ Len(results.boxes) = Len(resultsLog.record.boxes)
          /\ Len(resultsLog.replies) = Len(resultsLog.record.boxes)
          /\ \A k \in 1..Len(results.boxes) :
                results.boxes[k].entities =
                    IF k \in FailedWords THEN <<>> ELSE Returned(resultsLog.replies[k])

\* A stored result of three words of which exactly one call threw and
\* another word carries entities.
C6_Witness ==
    /\ results # Null
    /\ Cardinality(FailedWords) = 1
    /\ Len(results.boxes) = 3
    /\ \E k \in 1..Len(results.boxes) : results.boxes[k].entities # <<>>

\* C7: a success message on the bridge leads to the stored result of its
\* run, whatever the classifier calls do, as long as each of them ends.
C7_SuccessLeadsToReady ==
    \A r \in Runs :
        (\E k \in 1..Len(toHost) : toHost[k].run = r /\ IsSuccess(toHost[k].data))
            ~> (results # Null /\ resultsLog.run = r)

\* A stored result of a run with a classifier call that threw.
C7_Witness ==
    /\ results # Null
    /\ resultsLog.replies # <<>>
    /\ \E k \in 1..Len(resultsLog.replies) : resultsLog.replies[k].rejected

\* C8: the stored result has the words of the OCR result, in order, each
\* with its text, bbox and confidence, a word whose call returned entities
\* carries them unchanged, and text and imageSize are those of the OCR
\* result.
C8_EnrichmentPreservesRecord ==
    results # Null =>
        /\ Len(results.boxes) = Len(resultsLog.record.boxes)
        /\ \A k \in 1..Len(results.boxes) :
              /\ results.boxes[k].text = resultsLog.record.boxes[k].text
              /\ results.boxes[k].bbox = resultsLog.record.boxes[k].bbox
              /\ results.boxes[k].confidence = resultsLog.record.boxes[k].confidence
              /\ (k <= Len(resultsLog.replies) /\ ~resultsLog.replies[k].rejected)
                    => results.boxes[k].entities = Returned(resultsLog.replies[k])
        /\ results.text = resultsLog.record.text
        /\ results.imageSize = resultsLog.record.imageSize

\* A stored result of several words with distinct boxes, one of which
\* carries an entity twice.
C8_Witness ==
    /\ results # Null
    /\ Len(results.boxes) >= 2
    /\ results.boxes[1].bbox # results.boxes[2].bbox
    /\ \E k \in 1..Len(results.boxes) :
          /\ Len(results.boxes[k].entities) = 3
          /\ results.boxes[k].entities[2] = results.boxes[k].entities[3]
          /\ results.boxes[k].entities[1] # results.boxes[k].entities[2]

\* C9: at most one classifier call is outstanding.
C9_OneClassifierCall ==
    Cardinality(Enriching) <= 1

\* The words of a sequence of boxes that have a text.
WithText(boxes) == {k \in 1..Len(boxes) : boxes[k].text # <<>>}

\* C10: no classifier call is issued for a word without text: the texts
\* sent are never empty, and a finished run has sent as many as its OCR
\* result has words with a text.
C10_EmptyTextSkipped ==
    /\ \A r \in Enriching :
          \A k \in 1..Len(enrich[r].task.sent) : enrich[r].task.sent[k] # <<>>
    /\ results # Null =>
          Len(resultsLog.sent) = Cardinality(WithText(resultsLog.record.boxes))

\* The call taken on its own is one of function fn.
CallOf(fn) == call # Null /\ call.fn = fn

\* The entities of a word, none when it has no such field.
EntitiesOf(b) == IF "entities" \in DOMAIN b THEN b.entities ELSE <<>>

\* C11: isSensitiveBox returns true exactly when some entity of the word
\* has a category of the sensitive set and a score of at least 0.85: a word
\* with {EMAIL, 0.90} or {EMAIL, 0.85} is sensitive, a word with
\* {EMAIL, 0.80} or with a high score in a category outside the set is not.
C11_SensitiveExactly ==
    (CallOf("isSensitiveBox") /\ HasReturned(call)) =>
        LET es == EntitiesOf(call.args[1])
        IN  /\ call.value =
                   (\E k \in 1..Len(es) :
                        /\ es[k].entity \in SENSITIVE_CATEGORIES
                        /\ "score" \in DOMAIN es[k]
                        /\ es[k].score >= 85)
            /\ es = <<[entity |-> "EMAIL", score |-> 90]>> => call.value
            /\ es = <<[entity |-> "EMAIL", score |-> 85]>> => call.value
            /\ es = <<[entity |-> "EMAIL", score |-> 80]>> => ~call.value
            /\ es = <<[entity |-> "LOCATION", score |-> 90]>> => ~call.value

\* isSensitiveBox has returned true for a word whose only entity above the
\* threshold comes second and scores exactly 0.85.
C11_Witness ==
    /\ CallOf("isSensitiveBox") /\ HasReturned(call)
    /\ EntitiesOf(call.args[1]) =
           <<[entity |-> "LOCATION", score |-> 90], [entity |-> "EMAIL", score |-> 85]>>
    /\ call.value

\* The thresholds the predicate is compared at, in hundredths.
Thresholds == {0, 70, 80, 85, 90, 100}

\* C12: a word that is sensitive at a threshold is sensitive at every
\* lower threshold.
C12_MonotonicInThreshold ==
    CallOf("isSensitiveBox") =>
        \A t1 \in Thresholds, t2 \in Thresholds :
            (t2 <= t1 /\ SensitiveAt(call.args[1], t1))
                => SensitiveAt(call.args[1], t2)

\* A word that is sensitive at 0.90 and not at 1.00, for which
\* isSensitiveBox has returned true.
C12_Witness ==
    /\ CallOf("isSensitiveBox") /\ HasReturned(call)
    /\ SensitiveAt(call.args[1], 90)
    /\ ~SensitiveAt(call.args[1], 100)
    /\ call.value

\* ------------------------------------------- exact arithmetic, for claims
\* The sums, products and comparisons below are those of the reals: the
\* result [m, e] is the value m * 2^e, with no rounding.
RECURSIVE Exact(_)
Exact(a) ==
    IF a.m = 0 THEN Zero
    ELSE IF a.m % 2 = 0 THEN Exact([m |-> a.m \div 2, e |-> a.e + 1])
    ELSE a

ExactSum(a, b) ==
    LET x == Exact(a)
        y == Exact(b)
        e == IF x.e <= y.e THEN x.e ELSE y.e
    IN  Exact([m |-> x.m * 2 ^ (x.e - e) + y.m * 2 ^ (y.e - e), e |-> e])

ExactDiff(a, b) == ExactSum(a, [m |-> 0 - b.m, e |-> b.e])

ExactProd(a, b) ==
    LET x == Exact(a)
        y == Exact(b)
    IN  Exact([m |-> x.m * y.m, e |-> x.e + y.e])

\* a <= b
AtMost(a, b) == ExactDiff(b, a).m >= 0

\* a = b
Same(a, b) == ExactDiff(b, a).m = 0

\* |a|
Magnitude(a) == [m |-> Abs(a.m), e |-> a.e]

\* Four units of roundoff times a: 2^(2 - FloatBits) * a.
Tolerance(a) == [m |-> a.m, e |-> a.e + 2 - FloatBits]

\* a and b differ by at most the tolerance of scale.
Near(a, b, scale) == AtMost(Magnitude(ExactDiff(a, b)), Tolerance(scale))

\* a <= b, up to the tolerance of scale.
NearlyAtMost(a, b, scale) == AtMost(a, ExactSum(b, Tolerance(scale)))

\* computeDisplayedRect has returned for an image with both sides above 0.
RectOfImage ==
    /\ CallOf("computeDisplayedRect") /\ HasReturned(call)
    /\ ~Falsy(call.args[3]) /\ ~Falsy(call.args[4])

\* C13 as stated: the rectangle lies inside the container, spans its width
\* or its height, is centred on the other axis, and displayedW * imageH =
\* displayedH * imageW, all of them exactly.
C13_ContainExactly ==
    RectOfImage =>
        LET cW == call.args[1]
            cH == call.args[2]
            r == call.value
        IN  /\ AtMost(Zero, r.offsetX) /\ AtMost(Zero, r.offsetY)
            /\ AtMost(ExactSum(r.offsetX, r.displayedW), cW)
            /\ AtMost(ExactSum(r.offsetY, r.displayedH), cH)
            /\ Same(r.displayedW, cW) \/ Same(r.displayedH, cH)
            /\ Same(ExactSum(ExactSum(r.offsetX, r.offsetX), r.displayedW), cW)
            /\ Same(ExactSum(ExactSum(r.offsetY, r.offsetY), r.displayedH), cH)
            /\ Same(ExactProd(r.displayedW, call.args[4]),
                    ExactProd(r.displayedH, call.args[3]))

\* C13, amended: the rectangle spans the container's width or its height
\* exactly, with offset 0 on that axis; it lies inside the container, is
\* centred on the other axis and keeps the image's aspect ratio up to four
\* units of roundoff, relative to the container's side and to displayedW *
\* imageH.
C13_ContainWithinRounding ==
    RectOfImage =>
        LET cW == call.args[1]
            cH == call.args[2]
            r == call.value
            area == ExactProd(r.displayedW, call.args[4])
        IN  /\ \/ Same(r.displayedW, cW) /\ r.offsetX = Zero
               \/ Same(r.displayedH, cH) /\ r.offsetY = Zero
            /\ NearlyAtMost(Zero, r.offsetX, cW)
            /\ NearlyAtMost(Zero, r.offsetY, cH)
            /\ NearlyAtMost(ExactSum(r.offsetX, r.displayedW), cW, cW)
            /\ NearlyAtMost(ExactSum(r.offsetY, r.displayedH), cH, cH)
            /\ Near(ExactSum(ExactSum(r.offsetX, r.offsetX), r.displayedW), cW, cW)
            /\ Near(ExactSum(ExactSum(r.offsetY, r.offsetY), r.displayedH), cH, cH)
            /\ Near(area, ExactProd(r.displayedH, call.args[3]), area)

\* computeDisplayedRect has returned a rectangle that is wider than the
\* container, by rounding.
C13_Witness ==
    /\ RectOfImage
    /\ ~AtMost(call.value.displayedW, call.args[1])

\* projectBox has returned.
Projected == CallOf("projectBox") /\ HasReturned(call)

\* The rectangle computeDisplayedRect returns for the container and the
\* image of the projectBox call.
RectOfCall ==
    computeDisplayedRect(call.args[3], call.args[4],
                         call.args[2].width, call.args[2].height)

\* The edges of the overlay shrunk by the padding on every side.
ShrunkLeft == ExactSum(call.value.left, FromInt(pad))

ShrunkTop == ExactSum(call.value.top, FromInt(pad))

ShrunkRight ==
    ExactDiff(ExactSum(call.value.left, call.value.width), FromInt(pad))

ShrunkBottom ==
    ExactDiff(ExactSum(call.value.top, call.value.height), FromInt(pad))

\* The scale of the rounding errors along a side of the container: twice
\* the side and the paddings.
Slack(side) ==
    ExactSum(ExactSum(side, FromInt(2 * pad)), ExactSum(side, FromInt(2 * pad)))

\* C14 as stated: the overlay of a box inside the image, shrunk by the
\* padding, lies inside the displayed rectangle, exactly.
C14_OverlayInsideExactly ==
    Projected =>
        /\ AtMost(RectOfCall.offsetX, ShrunkLeft)
        /\ AtMost(RectOfCall.offsetY, ShrunkTop)
        /\ AtMost(ShrunkRight, ExactSum(RectOfCall.offsetX, RectOfCall.displayedW))
        /\ AtMost(ShrunkBottom, ExactSum(RectOfCall.offsetY, RectOfCall.displayedH))

\* C14, amended: the overlay of a box inside the image, shrunk by the
\* padding, lies inside the displayed rectangle up to eight units of
\* roundoff, relative to the container's side plus the paddings.
C14_OverlayInsideWithinRounding ==
    Projected =>
        /\ NearlyAtMost(RectOfCall.offsetX, ShrunkLeft, Slack(call.args[3]))
        /\ NearlyAtMost(RectOfCall.offsetY, ShrunkTop, Slack(call.args[4]))
        /\ NearlyAtMost(ShrunkRight,
                        ExactSum(RectOfCall.offsetX, RectOfCall.displayedW),
                        Slack(call.args[3]))
        /\ NearlyAtMost(ShrunkBottom,
                        ExactSum(RectOfCall.offsetY, RectOfCall.displayedH),
                        Slack(call.args[4]))

\* projectBox has returned for a box that spans the width of its image, and
\* the shrunk overlay ends to the right of the displayed rectangle.
C14_Witness ==
    /\ Projected
    /\ call.args[1].x0 = Zero /\ call.args[1].x1 = call.args[2].width
    /\ ~AtMost(ShrunkRight, ExactSum(RectOfCall.offsetX, RectOfCall.displayedW))

\* The number n / 2.
Halves(n) == [m |-> n, e |-> 0 - 1]

\* computeDisplayedRect has returned for the 400 x 200 image in the
\* 300 x 280 container.
ScenarioRect ==
    /\ call = Spread(RectCall(300, containerH, FromInt(400), FromInt(200)),
                     "value", call.value)

\* projectBox has returned for the box {100, 50, 200, 80} of that image.
ScenarioOverlay ==
    /\ call = Spread(ProjectCall(ScenarioBox, ScenarioSize, 300, containerH),
                     "value", call.value)

\* The displayed rectangle of the scenario: 300 x 150 at (0, 65).
ScenarioRectIs ==
    /\ Same(call.value.displayedW, FromInt(300))
    /\ Same(call.value.displayedH, FromInt(150))
    /\ Same(call.value.offsetX, Zero)
    /\ Same(call.value.offsetY, FromInt(65))

\* C15 as stated: the displayed rectangle is 300 x 150 at (0, 65), and the
\* overlay has left 73, top 102.5, width 73 and height 26.5.
C15_ScenarioAsStated ==
    /\ (CallOf("computeDisplayedRect") /\ HasReturned(call) /\ ScenarioRect)
           => ScenarioRectIs
    /\ (Projected /\ ScenarioOverlay) =>
           /\ Same(call.value.left, FromInt(73))
           /\ Same(call.value.top, Halves(205))
           /\ Same(call.value.width, FromInt(73))
           /\ Same(call.value.height, Halves(53))

\* C15, amended: the displayed rectangle is 300 x 150 at (0, 65), and the
\* overlay has left 73, top 100.5, width 79 and height 26.5.
C15_Scenario ==
    /\ (CallOf("computeDisplayedRect") /\ HasReturned(call) /\ ScenarioRect)
           => ScenarioRectIs
    /\ (Projected /\ ScenarioOverlay) =>
           /\ Same(call.value.left, FromInt(73))
           /\ Same(call.value.top, Halves(201))
           /\ Same(call.value.width, FromInt(79))
           /\ Same(call.value.height, Halves(53))

\* projectBox has returned for the scenario, with an overlay that starts
\* the padding above the word: 65 + 50 * 0.75 - 2.
C15_Witness ==
    /\ Projected /\ ScenarioOverlay
    /\ Same(ExactSum(call.value.top, FromInt(pad)), ExactSum(FromInt(65), Halves(75)))

\* A side of an image that is 0 or missing.
NoSide(x) == x = Null \/ x = FromInt(0)

\* C16: for an image with a side that is 0 or missing, computeDisplayedRect
\* returns the full container at offset (0, 0), and divides nothing.
C16_DegenerateImage ==
    (/\ CallOf("computeDisplayedRect") /\ HasReturned(call)
     /\ NoSide(call.args[3]) \/ NoSide(call.args[4])) =>
        /\ call.value.displayedW = call.args[1]
        /\ call.value.displayedH = call.args[2]
        /\ call.value.offsetX = FromInt(0)
        /\ call.value.offsetY = FromInt(0)
        /\ call.value.divisions = 0

\* computeDisplayedRect has returned for an image whose width is missing
\* and whose height is not, in a container with sides above 0.
C16_Witness ==
    /\ CallOf("computeDisplayedRect") /\ HasReturned(call)
    /\ call.args[3] = Null /\ ~NoSide(call.args[4])
    /\ ~NoSide(call.args[1]) /\ ~NoSide(call.args[2])
    /\ call.value.displayedW = call.args[1]

\* ---------------------------------------------------------- the overlays
\* results.boxes.filter(isSensitiveBox)
SensitiveBoxes(res) == SelectSeq(res.boxes, isSensitiveBox)

\* Mutant of OverlaysOf: the words are mapped to overlays without the
\* filter.
OverlaysOfEveryWord(blur, res, width) ==
    IF blur /\ res # Null
    THEN [k \in 1..Len(res.boxes) |->
              projectBox(Numbers(res.boxes[k].bbox), Numbers(res.imageSize),
                         FromInt(width), FromInt(containerH))]
    ELSE <<>>

\* The overlay rectangles the screen renders over the image for a flag, a
\* stored result and a container width: one per sensitive word, in order.
OverlaysOf(blur, res, width) ==
    IF blur /\ res # Null
    THEN LET sensitive == SensitiveBoxes(res)
         IN  [k \in 1..Len(sensitive) |->
                  projectBox(Numbers(sensitive[k].bbox), Numbers(res.imageSize),
                             FromInt(width), FromInt(containerH))]
    ELSE <<>>

\* The overlays on the screen: the image container is rendered when an
\* image is selected.
Overlays ==
    IF imageUri # NoImage THEN OverlaysOf(showBlur, results, containerW) ELSE <<>>

\* The widths a container is taken to have in the claims.
ContainerWidths == (0..MaxDim) \cup LayoutWidths \cup {containerW}

SuccessResponses ==
    {i \in 1..Len(toHost) : IsSuccess(toHost[i].data)}

\* The host is about to handle the success response of run r.
HandlesSuccessOf(r) ==
    /\ toHost # <<>>
    /\ IsSuccess(Head(toHost).data)
    /\ Head(toHost).run = r

\* C18: a result is stored only when the enrichment of its run completes;
\* an enrichment starts only when the host handles the success response of
\* its run; a success response belongs to a run that was triggered, and a
\* run is triggered only with an image selected.
C18_StatesInOrder ==
    /\ [](\A i \in SuccessResponses :
              /\ toHost[i].run \in 1..(nextRun - 1)
              /\ toHost[i].image # NoImage)
    /\ [][/\ nextRun' # nextRun => imageUri # NoImage
          /\ \A r \in Runs :
                 (enrich[r] = Idle /\ enrich'[r] # Idle) => HandlesSuccessOf(r)
          /\ results' # results => resultsLog' # resultsLog
          /\ resultsLog' # resultsLog =>
                 /\ enrich[resultsLog'.run] # Done
                 /\ enrich'[resultsLog'.run] = Done
                 /\ resultsLog'.image # NoImage]_vars

\* The stored result of a run whose enrichment took classifier calls, with
\* nothing of the run left on the bridge.
C18_Witness ==
    /\ results # Null
    /\ enrich[resultsLog.run] = Done
    /\ Len(resultsLog.replies) > 0
    /\ toHost = <<>>

\* The session is Ready: the result of a completed run on the selected
\* image is stored, and no recognition or enrichment is in progress.
Ready ==
    /\ imageUri # NoImage
    /\ results # Null
    /\ resultsLog.image = imageUri
    /\ ~isProcessing
    /\ reads = {}
    /\ InFlight = {}
    /\ Enriching = {}

\* C19: the visibility toggle is pressed only in Ready.
C19_ToggleOnlyInReady ==
    [][showBlur' # showBlur => Ready]_vars

\* C20: a press of the toggle negates showBlur and leaves results,
\* imageUri, isProcessing and the container alone, so that a second press
\* brings back the overlays there were before the first.
C20_ToggleChangesOnlyFlag ==
    [][showBlur' # showBlur =>
           /\ showBlur' = ~showBlur
           /\ UNCHANGED <<results, resultsLog, imageUri, isProcessing, containerW>>
           /\ OverlaysOf(~showBlur', results', containerW')
                  = OverlaysOf(showBlur, results, containerW)]_vars

\* The overlays of a stored result with a sensitive word are hidden: the
\* toggle has been pressed an odd number of times.
C20_Witness ==
    /\ imageUri # NoImage /\ results # Null
    /\ ~showBlur
    /\ Overlays = <<>>
    /\ Len(OverlaysOf(TRUE, results, containerW)) > 0

\* ------------------------------------------------- the bridge's errors
\* The step in which onWebViewMessage handles the message at the head of
\* the worker's messages.
HostHandles == toHost # <<>> /\ toHost' = Tail(toHost)

\* The message the host handles next is the worker's {ok:false, error}.
FailureAtHead ==
    /\ toHost # <<>>
    /\ Parses(Head(toHost).data)
    /\ ~Head(toHost).data.ok

\* C21: when the host handles the worker's {ok:false, error}, isProcessing
\* becomes false, no enrichment is started, results is left unchanged and
\* the one alert of the step is the OCR error.
C21_FailureAbortsRun ==
    [][(FailureAtHead /\ HostHandles)
       => /\ isProcessing' = FALSE
          /\ enrich' = enrich
          /\ results' = results
          /\ resultsLog' = resultsLog
          /\ alert' = "OCR error"]_vars

\* The host has just handled a failure of the worker while the run was
\* processing.
C21_Witness ==
    /\ alert = "OCR error"
    /\ ~isProcessing
    /\ nextRun > 1
    /\ \A r \in Runs : enrich[r] = Idle

\* The host handles data JSON.parse throws on: the catch reports a bridge
\* error, the finally block clears isProcessing, and the stored result and
\* the enrichments are left alone.
HostCatches ==
    (toHost # <<>> /\ ~Parses(Head(toHost).data) /\ HostHandles)
    => /\ alert' = "Bridge error"
       /\ isProcessing' = FALSE
       /\ results' = results
       /\ resultsLog' = resultsLog
       /\ enrich' = enrich

\* The step in which onMsg handles the message at the head of the host's
\* messages.
WorkerHandles == workerLoaded /\ toWorker # <<>> /\ toWorker' = Tail(toWorker)

\* The worker handles data JSON.parse throws on: it answers with one
\* {ok:false} message and starts nothing; and it starts runOcr for every
\* request with an image that it handles, whatever it handled before.
WorkerCatches ==
    /\ (WorkerHandles /\ ~Parses(Head(toWorker).data))
       => /\ Len(toHost') = Len(toHost) + 1
          /\ ~toHost'[Len(toHost')].data.ok
          /\ SubSeq(toHost', 1, Len(toHost)) = toHost
          /\ jobs' = jobs
          /\ workerLoaded'
    /\ (WorkerHandles /\ Parses(Head(toWorker).data)
            /\ IsOcrCommand(Head(toWorker).data))
       => [run |-> Head(toWorker).run, image |-> Head(toWorker).image] \in jobs'

\* A run that was unanswered when the host handled unparseable data, or
\* the worker's answer to it, has not stored its result.
MalformedRunStoresNothing ==
    \A r \in malformed : resultsLog = Null \/ resultsLog.run # r

\* C22: unparseable data crashes neither side of the bridge: the host
\* reports a bridge error, clears isProcessing and leaves results
\* unchanged; the worker answers with {ok:false} and accepts later
\* requests; and the run the malformed message affected stores no result.
C22_MalformedMessageFailsRun ==
    /\ [][HostCatches]_vars
    /\ [][WorkerCatches]_vars
    /\ []MalformedRunStoresNothing

\* ------------------------------------------------------ image selection
\* C23: in every reachable state the selection of an image can go on,
\* whatever is unanswered on the bridge or unresolved at the classifier:
\* pickImage can be invoked unless its picker is open already, the
\* permission request and the picker can resolve, and the picker's asset
\* becomes imageUri in that step.
C23_SelectionAlwaysEnabled ==
    /\ pickPc = "idle" => ENABLED PickImage
    /\ pickPc = "perm" => ENABLED PickPermission(TRUE)
    /\ pickPc = "picker"
       => \A uri \in Images : ENABLED (PickResult(FALSE, uri) /\ imageUri' = uri)

\* An image was selected while the classifier call of a run on another
\* image was unresolved and the request of a later run was unanswered, and
\* pickImage can be invoked again.
C23_Witness ==
    /\ pickPc = "idle"
    /\ (Unanswered \cap Runs) # {}
    /\ \E r \in Enriching :
           /\ enrich[r].selected = enrich[r].image
           /\ imageUri # enrich[r].image

\* ------------------------------------------------------- the handshake
\* The readiness messages among the messages q.
ReadyIn(q) == {k \in 1..Len(q) : IsReady(q[k].data)}

\* The step in which the worker's script runs.
WorkerStarts == ~workerLoaded /\ workerLoaded'

\* C24: the worker emits {ok:true, ready:true} exactly once per start (the
\* step in which its script runs appends one readiness message, no other
\* step adds one, and the script does not run again), and it processes no
\* recognition request before that: runOcr is started only by a worker
\* whose script has run.
C24_ReadyOnceBeforeRequests ==
    /\ [][WorkerStarts
          => /\ Len(toHost') = Len(toHost) + 1
             /\ SubSeq(toHost', 1, Len(toHost)) = toHost
             /\ toHost'[Len(toHost')].data = ReadyMsg]_vars
    /\ [][~WorkerStarts
          => Cardinality(ReadyIn(toHost')) <= Cardinality(ReadyIn(toHost))]_vars
    /\ [][workerLoaded => workerLoaded']_vars
    /\ [][jobs' \ jobs # {} => workerLoaded]_vars
    /\ [](jobs # {} => workerLoaded)

\* The worker has started, its one readiness message is still on its way
\* to the host, and it is recognising a request.
C24_Witness ==
    /\ workerLoaded
    /\ Cardinality(ReadyIn(toHost)) = 1
    /\ jobs # {}

\* A message of the host that is a recognition request, whatever its image.
IsRequest(msg) == Parses(msg) /\ "cmd" \in DOMAIN msg /\ msg.cmd = "ocr"

\* The shapes of a tagged response.
IsTagged(msg) ==
    \/ msg.ok /\ {"text", "boxes", "imageSize"} \subseteq DOMAIN msg
    \/ ~msg.ok /\ "error" \in DOMAIN msg

\* C25: every {cmd:"ocr"} request the ready worker handles is answered by
\* exactly one tagged response: handling it starts runOcr for its run, the
\* empty image included, and a runOcr that ends sends one success or
\* failure message of its run.
C25_EveryRequestAnswered ==
    /\ [][(WorkerHandles /\ IsRequest(Head(toWorker).data))
          => [run |-> Head(toWorker).run, image |-> Head(toWorker).image]
                 \in jobs']_vars
    /\ [][\A job \in jobs \ jobs' :
              /\ Len(toHost') = Len(toHost) + 1
              /\ toHost'[Len(toHost')].run = job.run
              /\ IsTagged(toHost'[Len(toHost')].data)]_vars

\* ------------------------------------------------------- the file read
\* The read rd ends with the request of its run posted.
ReadPosts(rd) ==
    /\ Len(toWorker') = Len(toWorker) + 1
    /\ SubSeq(toWorker', 1, Len(toWorker)) = toWorker
    /\ toWorker'[Len(toWorker')].run = rd.run
    /\ IsRequest(toWorker'[Len(toWorker')].data)
    /\ alert' = NoAlert

\* The read rd ends with the run aborted: nothing is posted, isProcessing
\* is false, results and imageUri are unchanged, a read error is surfaced.
ReadAborts(rd) ==
    /\ toWorker' = toWorker
    /\ isProcessing' = FALSE
    /\ results' = results
    /\ resultsLog' = resultsLog
    /\ imageUri' = imageUri
    /\ alert' = "Read error"

\* C26: a file read of runOCR that fails aborts the run before anything is
\* sent: every read that ends either posts the request of its run or posts
\* nothing, clears isProcessing, leaves results and imageUri unchanged and
\* surfaces a read error; a request is posted only by the read that ends
\* in that step, so nothing of an aborted run is posted later either.
C26_ReadFailureAbortsRun ==
    /\ [][\A rd \in reads \ reads' : ReadPosts(rd) \/ ReadAborts(rd)]_vars
    /\ [][Len(toWorker') > Len(toWorker)
          => \E rd \in reads \ reads' : ReadPosts(rd)]_vars
    /\ [](\A rd \in reads : rd.run \notin (Unanswered \ {q.run : q \in reads}))

\* The file read of a run has failed: the read error is up, nothing is
\* processing, and nothing of the run was posted or stored.
C26_Witness ==
    /\ alert = "Read error"
    /\ ~isProcessing
    /\ nextRun = 2
    /\ reads = {}
    /\ Unanswered = {}
    /\ results = Null

\* ------------------------------------------------ the trigger's return
\* C27: whenever isProcessing is true it becomes false again, given that
\* every file read ends, the worker starts, handles its messages and
\* answers every request it accepts, and the host handles every message.
C27_ProcessingEnds == isProcessing ~> ~isProcessing

\* -------------------------------------------- the readiness at the host
\* The message the host handles next is the worker's readiness.
ReadyAtHead ==
    /\ toHost # <<>>
    /\ Parses(Head(toHost).data)
    /\ IsReady(Head(toHost).data)

\* C28: handling the worker's readiness message leaves imageUri, results,
\* showBlur and isProcessing as they were, also when a recognition was
\* triggered before the message arrived.
C28_ReadyChangesNothing ==
    [][(ReadyAtHead /\ HostHandles)
       => UNCHANGED <<imageUri, results, showBlur, isProcessing>>]_vars

\* --------------------------------------------------------- the overlays
\* The screen computes overlays: the image container is rendered, the blur
\* is on and a result is stored.
OverlaysComputed == imageUri # NoImage /\ showBlur /\ results # Null

SensitiveWords == {k \in 1..Len(results.boxes) : isSensitiveBox(results.boxes[k])}

\* The place among the overlays of the sensitive word at position k: the
\* number of sensitive words up to it.
PlaceOf(k) == Cardinality({i \in SensitiveWords : i <= k})

\* C30: with showBlur true and a result stored, the overlays are the
\* projections of the stored result's sensitive words in word order (as
\* many overlays as sensitive words, and the overlay of each at its place);
\* otherwise there are none; and a word with no entities has no overlay.
C30_OverlaysAreSensitiveWords ==
    IF showBlur /\ results # Null
    THEN /\ Len(Overlays) = Cardinality(SensitiveWords)
         /\ \A k \in SensitiveWords :
                Overlays[PlaceOf(k)] =
                    projectBox(Numbers(results.boxes[k].bbox),
                               Numbers(results.imageSize),
                               FromInt(containerW), FromInt(containerH))
         /\ \A k \in 1..Len(results.boxes) :
                EntitiesOf(results.boxes[k]) = <<>> => k \notin SensitiveWords
    ELSE Overlays = <<>>

\* The blur is on over a stored result in which a word without entities
\* stands before a sensitive word: the one overlay is the second word's.
C30_Witness ==
    /\ showBlur
    /\ results # Null
    /\ containerW \in LayoutWidths
    /\ Len(results.boxes) >= 2
    /\ EntitiesOf(results.boxes[1]) = <<>>
    /\ SensitiveWords = {2}
    /\ Len(Overlays) = 1

====
